---- MODULE Spec2Model ----
(***************************************************************************)
(* The affine kernel of nnabla-c-runtime                                   *)
(* (src/functions/implements/neural_network/affine/affine.c):              *)
(* allocate_affine_config (bind), exec_affine with its two strategies      *)
(* exec_affine_float / exec_affine_generic, and free_affine_config         *)
(* (release), over a small heap and a pool of rt_variable_t tensors.       *)
(*                                                                         *)
(* Floats are modelled by integers: every value of the model is a small    *)
(* integer, which float32 represents and adds/multiplies exactly.          *)
(***************************************************************************)
EXTENDS Integers, Sequences, FiniteSets, TLC

(***************************************************************************)
(* Bounds of the model.                                                    *)
(***************************************************************************)
\* heap addresses are 1..MaxAddr
MaxAddr == 2
\* the configured base_axis ranges over -1..MaxAxis (the tensors have rank 2)
MaxAxis == 3
\* a read outside a shape array yields some value in 0..MaxGarbage
MaxGarbage == 1

Addr == 1..MaxAddr
BaseAxes == -1..MaxAxis
Garbage == 0..MaxGarbage

(***************************************************************************)
(* rt_variable_t: the pool of tensor Variables the caller can pass to the  *)
(* kernel.  type, scale and shape are fixed; the buffers are state (data). *)
(***************************************************************************)
NULL == "NULL"
NN_DATA_TYPE_FLOAT == "NN_DATA_TYPE_FLOAT"
NN_DATA_TYPE_INT16 == "NN_DATA_TYPE_INT16"
\* a type tag the Typed Access Layer has no accessor for
NN_DATA_TYPE_UNSUPPORTED == "NN_DATA_TYPE_UNSUPPORTED"

VarIds == {"X", "Xq", "Xu", "X3", "X0", "W", "Wq", "Ws", "B", "Bz", "Bs", "Y", "Yq", "Y0"}

Variables ==
  [v \in VarIds |->
     CASE v = "X"  -> [type |-> NN_DATA_TYPE_FLOAT, scale |-> 1, shape |-> <<2, 3>>]
       [] v = "Xq" -> [type |-> NN_DATA_TYPE_INT16, scale |-> 2, shape |-> <<2, 3>>]
       [] v = "Xu" -> [type |-> NN_DATA_TYPE_UNSUPPORTED, scale |-> 1, shape |-> <<2, 3>>]
       [] v = "X3" -> [type |-> NN_DATA_TYPE_FLOAT, scale |-> 1, shape |-> <<3, 3>>]
       [] v = "X0" -> [type |-> NN_DATA_TYPE_FLOAT, scale |-> 1, shape |-> <<0, 3>>]
       [] v = "W"  -> [type |-> NN_DATA_TYPE_FLOAT, scale |-> 1, shape |-> <<3, 4>>]
       [] v = "Wq" -> [type |-> NN_DATA_TYPE_INT16, scale |-> 2, shape |-> <<3, 4>>]
       [] v = "Ws" -> [type |-> NN_DATA_TYPE_FLOAT, scale |-> 1, shape |-> <<3, 2>>]
       [] v = "B"  -> [type |-> NN_DATA_TYPE_FLOAT, scale |-> 1, shape |-> <<4>>]
       [] v = "Bz" -> [type |-> NN_DATA_TYPE_FLOAT, scale |-> 1, shape |-> <<4>>]
       [] v = "Bs" -> [type |-> NN_DATA_TYPE_FLOAT, scale |-> 1, shape |-> <<2>>]
       [] v = "Y"  -> [type |-> NN_DATA_TYPE_FLOAT, scale |-> 1, shape |-> <<2, 4>>]
       [] v = "Yq" -> [type |-> NN_DATA_TYPE_INT16, scale |-> 1, shape |-> <<2, 4>>]
       [] v = "Y0" -> [type |-> NN_DATA_TYPE_FLOAT, scale |-> 1, shape |-> <<0, 4>>]]

\* the buffers as the caller filled them before the first bind
InitData ==
  [v \in VarIds |->
     CASE v = "X"  -> <<1, 2, 3, 4, 5, 6>>
       [] v = "Xq" -> <<1, 0, 2, 0, 1, 1>>
       [] v = "Xu" -> <<1, 1, 1, 1, 1, 1>>
       [] v = "X3" -> <<1, 2, 3, 4, 5, 6, 7, 8, 9>>
       [] v = "X0" -> <<>>
       [] v = "W"  -> <<1, 0, 0, 0,  0, 1, 0, 0,  0, 0, 1, 0>>
       [] v = "Wq" -> <<1, 1, 0, 0,  0, 1, 2, 0,  1, 0, 1, 1>>
       [] v = "Ws" -> <<1, 0, 0, 1, 1, 1>>
       [] v = "B"  -> <<1, 1, 1, 1>>
       [] v = "Bz" -> <<0, 0, 0, 0>>
       [] v = "Bs" -> <<1, 1>>
       [] v = "Y"  -> <<7, 7, 7, 7, 7, 7, 7, 7>>
       [] v = "Yq" -> <<7, 7, 7, 7, 7, 7, 7, 7>>
       [] v = "Y0" -> <<>>]

\* the argument lists a caller hands to bind: << f->inputs, f->outputs >>
GoodArity ==
  { << <<"X", "W", "B">>, <<"Y">> >>,      \* all Float32, with bias
    << <<"X", "W">>, <<"Y">> >>,           \* all Float32, no bias
    << <<"X", "W", "Bz">>, <<"Y">> >>,     \* all Float32, zero bias
    << <<"Xq", "Wq", "B">>, <<"Y">> >>,    \* fixed-point input and weight
    << <<"X", "W", "B">>, <<"Yq">> >>,     \* fixed-point output
    << <<"Xu", "W", "B">>, <<"Y">> >>,     \* input of an unsupported type
    << <<"X", "Ws", "B">>, <<"Y">> >>,     \* weight with too few elements
    << <<"X", "W", "Bs">>, <<"Y">> >>,     \* bias with too few elements
    << <<"X3", "W">>, <<"Y">> >>,          \* three input rows, two output rows
    << <<"X0", "W", "B">>, <<"Y0">> >> }   \* no rows
\* argument lists of the wrong length
BadArity ==
  { << <<"X">>, <<"Y">> >>, << <<"X", "W", "B", "B">>, <<"Y">> >>,
    << <<"X", "W">>, <<>> >>, << <<"X", "W", "B">>, <<"Y", "Yq">> >> }
BindArgs == GoodArity \cup BadArity

(***************************************************************************)
(* Typed Access Layer (utilities.c, not part of src/): select_getter and   *)
(* select_setter pick an accessor by the Variable's type tag; a Float32    *)
(* accessor moves the stored float, a fixed-point accessor scales.         *)
(***************************************************************************)
select_getter(v) ==
  CASE Variables[v].type = NN_DATA_TYPE_FLOAT -> "get_float"
    [] Variables[v].type = NN_DATA_TYPE_INT16 -> "get_fixed"
    [] OTHER -> NULL

select_setter(v) ==
  CASE Variables[v].type = NN_DATA_TYPE_FLOAT -> "set_float"
    [] Variables[v].type = NN_DATA_TYPE_INT16 -> "set_fixed"
    [] OTHER -> NULL

\* product of the dimensions of a shape
RECURSIVE calc_shape_size(_)
calc_shape_size(shape) ==
  IF shape = <<>> THEN 1 ELSE Head(shape) * calc_shape_size(Tail(shape))

\* element pos of a C array exists
InRange(buf, pos) == pos >= 0 /\ pos < Len(buf)
\* buf[pos] and buf[pos] = val; used only where pos is in range
Rd(buf, pos) == IF InRange(buf, pos) THEN buf[pos + 1] ELSE 0
Wr(buf, pos, val) == IF InRange(buf, pos) THEN [buf EXCEPT ![pos + 1] = val] ELSE buf

\* getter(variable, pos) / setter(variable, pos, value) through a resolved accessor
CallGetter(getter, v, buf, pos) ==
  IF getter = "get_float" THEN Rd(buf, pos) ELSE Rd(buf, pos) * Variables[v].scale

CallSetter(setter, v, buf, pos, val) ==
  IF setter = "set_float" THEN Wr(buf, pos, val) ELSE Wr(buf, pos, val \div Variables[v].scale)

(***************************************************************************)
(* struct affine_impl (the Resolved State) and the two exec strategies.    *)
(* A strategy is computed on the whole memory mem (Variable -> buffer).    *)
(* It yields the memory it leaves, acc, the sequence of the element        *)
(* accesses it made in program order, and oob: whether it stopped at an    *)
(* access outside a Variable's elements (the last one of acc), from where  *)
(* on the behaviour of the C program is undefined.                         *)
(***************************************************************************)
Access(var, kind, pos, stage) == [var |-> var, kind |-> kind, pos |-> pos, stage |-> stage]

VarSize(v) == calc_shape_size(Variables[v].shape)

\* the buffer an access goes to
BufferOf(p, var) ==
  CASE var = "input" -> p.input
    [] var = "weight" -> p.weight
    [] var = "bias" -> p.bias
    [] var = "output" -> p.output

\* an access that falls outside its Variable's elements
OutOfRange(p, a) == a.pos < 0 \/ a.pos >= VarSize(BufferOf(p, a.var))
HasOutOfRange(p, acc) == \E n \in 1..Len(acc) : OutOfRange(p, acc[n])

\* one statement group: it makes the accesses accs and leaves the memory mem1,
\* unless one of the accesses is out of range
Do(p, st, accs, mem1) ==
  IF HasOutOfRange(p, accs)
  THEN LET bad == CHOOSE n \in 1..Len(accs) :
                    OutOfRange(p, accs[n]) /\ \A m \in 1..(n - 1) : ~OutOfRange(p, accs[m])
       IN [mem |-> st.mem, acc |-> st.acc \o SubSeq(accs, 1, bad), oob |-> TRUE]
  ELSE [mem |-> mem1, acc |-> st.acc \o accs, oob |-> FALSE]

\* memset(output, 0, sizeof(float) * output_size)
FloatClear(p, mem) ==
  [mem |-> [mem EXCEPT ![p.output] =
               [n \in 1..Len(@) |-> IF n <= p.output_size THEN 0 ELSE @[n]]],
   acc |-> [n \in 1..p.output_size |-> Access("output", "w", n - 1, "clear")],
   oob |-> FALSE]

\* for (i = 0; i < output_loop_size; i++) of the weight stage, raw float buffers
RECURSIVE FloatWeightI(_, _, _, _, _, _)
FloatWeightI(p, st, k, j, u, i) ==
  IF st.oob \/ i >= p.output_loop_size THEN st
  ELSE LET opos == k * p.output_loop_size + i
           wpos == j * p.output_loop_size + i
           w == Rd(st.mem[p.weight], wpos)
           value == Rd(st.mem[p.output], opos)
       IN FloatWeightI(p,
            Do(p, st, << Access("weight", "r", wpos, "weight"),
                         Access("output", "r", opos, "weight"),
                         Access("output", "w", opos, "weight") >>,
               [st.mem EXCEPT ![p.output] = Wr(@, opos, value + u * w)]),
            k, j, u, i + 1)

\* for (j = 0; j < input_loop_size; j++)
RECURSIVE FloatWeightJ(_, _, _, _)
FloatWeightJ(p, st, k, j) ==
  IF st.oob \/ j >= p.input_loop_size THEN st
  ELSE LET ipos == k * p.input_loop_size + j
           u == Rd(st.mem[p.input], ipos)
           st1 == Do(p, st, << Access("input", "r", ipos, "weight") >>, st.mem)
       IN FloatWeightJ(p, FloatWeightI(p, st1, k, j, u, 0), k, j + 1)

\* if (pimpl->bias) for (i = 0; i < output_loop_size; i++)
RECURSIVE FloatBias(_, _, _, _)
FloatBias(p, st, k, i) ==
  IF st.oob \/ i >= p.output_loop_size THEN st
  ELSE LET opos == k * p.output_loop_size + i
           bpos == i
       IN FloatBias(p,
            Do(p, st, << Access("output", "r", opos, "bias"),
                         Access("bias", "r", bpos, "bias"),
                         Access("output", "w", opos, "bias") >>,
               [st.mem EXCEPT ![p.output] =
                  Wr(@, opos, Rd(st.mem[p.output], opos) + Rd(st.mem[p.bias], bpos))]),
            k, i + 1)

\* for (k = 0; k < base_loop_size; k++)
RECURSIVE FloatRows(_, _, _)
\* the bias loop of a row placed before its weight loops
FloatRows_biasfirst(p, st, k) ==
  IF st.oob \/ k >= p.base_loop_size THEN st
  ELSE LET st1 == IF p.bias # NULL THEN FloatBias(p, st, k, 0) ELSE st
           st2 == FloatWeightJ(p, st1, k, 0)
       IN FloatRows(p, st2, k + 1)

FloatRows(p, st, k) ==
  IF st.oob \/ k >= p.base_loop_size THEN st
  ELSE LET st1 == FloatWeightJ(p, st, k, 0)
           st2 == IF p.bias # NULL THEN FloatBias(p, st1, k, 0) ELSE st1
       IN FloatRows(p, st2, k + 1)

exec_affine_float(p, mem) == FloatRows(p, FloatClear(p, mem), 0)

\* for (i = 0; i < output_size; i++) set_output(output, i, 0)
RECURSIVE GenericClear(_, _, _)
\* the clearing loop left out
GenericClear_skipped(p, st, i) == st

GenericClear(p, st, i) ==
  IF st.oob \/ i >= p.output_size THEN st
  ELSE GenericClear(p,
         Do(p, st, << Access("output", "w", i, "clear") >>,
            [st.mem EXCEPT ![p.output] = CallSetter(p.set_output, p.output, @, i, 0)]),
         i + 1)

RECURSIVE GenericWeightI(_, _, _, _, _, _)
GenericWeightI(p, st, k, j, u, i) ==
  IF st.oob \/ i >= p.output_loop_size THEN st
  ELSE LET opos == k * p.output_loop_size + i
           wpos == j * p.output_loop_size + i
           w == CallGetter(p.get_weight, p.weight, st.mem[p.weight], wpos)
           value == CallGetter(p.get_output, p.output, st.mem[p.output], opos)
       IN GenericWeightI(p,
            Do(p, st, << Access("weight", "r", wpos, "weight"),
                         Access("output", "r", opos, "weight"),
                         Access("output", "w", opos, "weight") >>,
               [st.mem EXCEPT ![p.output] =
                  CallSetter(p.set_output, p.output, @, opos, value + u * w)]),
            k, j, u, i + 1)

RECURSIVE GenericWeightJ(_, _, _, _)
GenericWeightJ(p, st, k, j) ==
  IF st.oob \/ j >= p.input_loop_size THEN st
  ELSE LET ipos == k * p.input_loop_size + j
           u == CallGetter(p.get_input, p.input, st.mem[p.input], ipos)
           st1 == Do(p, st, << Access("input", "r", ipos, "weight") >>, st.mem)
       IN GenericWeightJ(p, GenericWeightI(p, st1, k, j, u, 0), k, j + 1)

RECURSIVE GenericBias(_, _, _, _)
GenericBias(p, st, k, i) ==
  IF st.oob \/ i >= p.output_loop_size THEN st
  ELSE LET opos == k * p.output_loop_size + i
           bpos == i
       IN GenericBias(p,
            Do(p, st, << Access("output", "r", opos, "bias"),
                         Access("bias", "r", bpos, "bias"),
                         Access("output", "w", opos, "bias") >>,
               [st.mem EXCEPT ![p.output] =
                  CallSetter(p.set_output, p.output, @, opos,
                    CallGetter(p.get_output, p.output, st.mem[p.output], opos)
                    + CallGetter(p.get_bias, p.bias, st.mem[p.bias], bpos))]),
            k, i + 1)

RECURSIVE GenericRows(_, _, _)
GenericRows(p, st, k) ==
  IF st.oob \/ k >= p.base_loop_size THEN st
  ELSE LET st1 == GenericWeightJ(p, st, k, 0)
           st2 == IF p.bias # NULL THEN GenericBias(p, st1, k, 0) ELSE st1
       IN GenericRows(p, st2, k + 1)

exec_affine_generic(p, mem) ==
  GenericRows(p, GenericClear(p, [mem |-> mem, acc |-> <<>>, oob |-> FALSE], 0), 0)

\* the guard of exec_affine (lines 106-109, with the intended grouping)
AllFloat(p) ==
  /\ Variables[p.input].type = NN_DATA_TYPE_FLOAT
  /\ Variables[p.output].type = NN_DATA_TYPE_FLOAT
  /\ Variables[p.weight].type = NN_DATA_TYPE_FLOAT
  /\ (p.bias = NULL \/ Variables[p.bias].type = NN_DATA_TYPE_FLOAT)

Strategy(p) == IF AllFloat(p) THEN "float" ELSE "generic"

RunStrategy(p, mem) ==
  IF AllFloat(p) THEN exec_affine_float(p, mem) ELSE exec_affine_generic(p, mem)

\* the accessor exec_affine_generic calls to make the access a
AccessorOf(p, a) ==
  CASE a.var = "input" -> p.get_input
    [] a.var = "weight" -> p.get_weight
    [] a.var = "bias" -> p.get_bias
    [] a.var = "output" /\ a.kind = "r" -> p.get_output
    [] OTHER -> p.set_output

\* exec_affine_generic calls through an accessor that is a null pointer
CallsUnresolved(p, acc) ==
  ~AllFloat(p) /\ \E n \in 1..Len(acc) : AccessorOf(p, acc[n]) = NULL

(***************************************************************************)
(* State.                                                                  *)
(*   f      rt_function_t: config pointer, argument lists and their counts *)
(*   heap   the allocator's blocks; a block holds an affine_config_t, and  *)
(*          when it has sizeof(affine_impl_t) bytes also the impl fields   *)
(*   data   the buffers of the Variables                                   *)
(*   pc     "running", "aborted" (a failed assert), or "undefined" (the    *)
(*          process has executed undefined behaviour)                      *)
(*   buf    the local buf of the last allocate_affine_config (0: none)     *)
(*   phase  history: which of bind / release the caller has completed      *)
(*   op     history: the last call made                                    *)
(*   ex     history: strategy and access trace of the last exec            *)
(*   rebound history: bind has returned more than once                     *)
(***************************************************************************)
VARIABLES f, heap, data, pc, buf, phase, op, ex, rebound

vars == << f, heap, data, pc, buf, phase, op, ex, rebound >>

Indeterminate == "indeterminate"

\* the impl fields of a block before anything was stored in them
Uninit ==
  [input |-> Indeterminate, get_input |-> Indeterminate,
   weight |-> Indeterminate, get_weight |-> Indeterminate,
   bias |-> Indeterminate, get_bias |-> Indeterminate,
   output |-> Indeterminate, output_size |-> Indeterminate,
   set_output |-> Indeterminate, get_output |-> Indeterminate,
   base_loop_size |-> Indeterminate, input_loop_size |-> Indeterminate,
   output_loop_size |-> Indeterminate]

FreeBlock == [live |-> FALSE, size |-> "none", base_axis |-> 0, impl |-> Uninit]

\* a live block no pointer of the program refers to any more
LeakedBlock == [live |-> TRUE, size |-> "leaked", base_axis |-> 0, impl |-> Uninit]

ConfigBlock(base_axis) ==
  [live |-> TRUE, size |-> "affine_config_t", base_axis |-> base_axis, impl |-> Uninit]

FreeAddrs(h) == {a \in Addr : ~h[a].live}

\* the asserts compiled out
ArityOk_noassert(num_of_inputs, num_of_outputs) == TRUE

\* assert(f->num_of_inputs == 2 || f->num_of_inputs == 3); assert(f->num_of_outputs == 1);
ArityOk(num_of_inputs, num_of_outputs) ==
  (num_of_inputs = 2 \/ num_of_inputs = 3) /\ num_of_outputs = 1

\* shape.data[i]: a read outside the array yields g
ShapeAt(shape, i, g) == IF i >= 0 /\ i < Len(shape) THEN shape[i + 1] ELSE g

\* size = 1; for (i = from; i < to; i++) size *= shape.data[i];
RECURSIVE LoopSize(_, _, _, _)
LoopSize(shape, from, to, g) ==
  IF from >= to THEN 1 ELSE ShapeAt(shape, from, g) * LoopSize(shape, from + 1, to, g)

\* lines 62-97: the fields allocate_affine_config stores in *pimpl.  prev is what
\* the block held before; gi and go are what reads outside the input's and the
\* output's shape array yield.
Populate(prev, inputs, outputs, num_of_inputs, base_axis, gi, go) ==
  LET input == inputs[1]
      weight == inputs[2]
      output == outputs[1]
  IN [input |-> input, get_input |-> select_getter(input),
      weight |-> weight, get_weight |-> select_getter(weight),
      bias |-> IF num_of_inputs > 2 THEN inputs[3] ELSE NULL,
      get_bias |-> IF num_of_inputs > 2 THEN select_getter(inputs[3]) ELSE prev.get_bias,
      output |-> output,
      output_size |-> calc_shape_size(Variables[output].shape),
      set_output |-> select_setter(output),
      get_output |-> select_getter(output),
      base_loop_size |-> LoopSize(Variables[input].shape, 0, base_axis, gi),
      input_loop_size |->
        LoopSize(Variables[input].shape, base_axis, Len(Variables[input].shape), gi),
      output_loop_size |->
        LoopSize(Variables[output].shape, base_axis, Len(Variables[output].shape), go)]

\* f->inputs[0], f->inputs[1], f->outputs[0] (and f->inputs[2]) exist
ArgsReadable(inputs, outputs) == Len(inputs) >= 2 /\ Len(outputs) >= 1

\* the values a read outside a shape array can yield, when the loops make one
GarbageIn(base_axis, rank) == IF base_axis < 0 \/ base_axis > rank THEN Garbage ELSE {0}
GarbageOut(base_axis) == IF base_axis < 0 THEN Garbage ELSE {0}

\* what the process can do to the buffers d once its behaviour is undefined
Damage(d) ==
  {d} \cup {[d EXCEPT ![v] = [n \in 1..Len(@) |-> MaxGarbage]] : v \in {"Y", "Yq"}}

Undefined(opname) ==
  /\ pc' = "undefined"
  /\ op' = opname
  /\ data' \in Damage(data)
  /\ ex' = [strategy |-> "undefined", acc |-> <<>>]
  /\ UNCHANGED << f, heap, buf, phase, rebound >>

Init ==
  /\ \E base_axis \in BaseAxes :
       heap = [a \in Addr |-> IF a = 1 THEN ConfigBlock(base_axis) ELSE FreeBlock]
  /\ f = [config |-> 1, num_of_inputs |-> 0, num_of_outputs |-> 0,
          inputs |-> <<>>, outputs |-> <<>>]
  /\ data = InitData
  /\ pc = "running"
  /\ buf = 0
  /\ phase = "Unbound"
  /\ op = "init"
  /\ ex = [strategy |-> "none", acc |-> <<>>]
  /\ rebound = FALSE

(***************************************************************************)
(* bind: the caller stores the argument lists in f and calls               *)
(* allocate_affine_config(f).  how is what realloc does: "inplace" (the    *)
(* block keeps its address), "moved" (to the free address a, the old block *)
(* is freed) or "fail" (NULL; then malloc returns the free address a, or   *)
(* NULL when a = 0).                                                       *)
(***************************************************************************)
allocate_affine_config(inputs, outputs, how, a) ==
  /\ pc = "running"
  /\ IF ~ArityOk(Len(inputs), Len(outputs))
     THEN \* assertion failure: abort() before anything is touched
          /\ pc' = "aborted"
          /\ op' = "bind"
          /\ f' = [f EXCEPT !.inputs = inputs, !.outputs = outputs,
                            !.num_of_inputs = Len(inputs), !.num_of_outputs = Len(outputs)]
          /\ UNCHANGED << heap, data, buf, phase, ex, rebound >>
     ELSE IF ~heap[f.config].live \/ (how = "fail" /\ a = 0) \/ ~ArgsReadable(inputs, outputs)
     THEN \* realloc of a freed pointer, memcpy to NULL, or a read past f->inputs
          Undefined("bind")
     ELSE LET old == heap[f.config]
              b == IF how = "inplace" THEN f.config ELSE a
              base_axis == old.base_axis
              rank == Len(Variables[inputs[1]].shape)
          IN \E gi \in GarbageIn(base_axis, rank), go \in GarbageOut(base_axis) :
               /\ heap' = [x \in Addr |->
                            IF x = b
                            THEN [live |-> TRUE, size |-> "affine_impl_t",
                                  base_axis |-> base_axis,
                                  impl |-> Populate(IF how = "fail" THEN Uninit ELSE old.impl,
                                                    inputs, outputs, Len(inputs),
                                                    base_axis, gi, go)]
                            ELSE IF x = f.config /\ how = "moved" THEN FreeBlock
                            ELSE IF x = f.config /\ how = "fail" THEN LeakedBlock
                            ELSE heap[x]]
               \* f->config = buf only on the malloc path (line 57)
               /\ f' = [f EXCEPT !.inputs = inputs, !.outputs = outputs,
                                 !.num_of_inputs = Len(inputs),
                                 !.num_of_outputs = Len(outputs),
                                 !.config = IF how = "fail" THEN b ELSE @]
               /\ buf' = b
               /\ pc' = "running"
               /\ phase' = "Bound"
               /\ rebound' = (buf # 0)
               /\ op' = "bind"
               /\ ex' = [strategy |-> "none", acc |-> <<>>]
               /\ data' = data

\* the allocator hands out the lowest free address
NewAddrs(h) == {a \in FreeAddrs(h) : \A x \in FreeAddrs(h) : a <= x}

\* the outcomes of realloc / malloc in the heap h for the block at address c
ReallocOutcomes(h, c) ==
  {<< "inplace", c >>, << "fail", 0 >>}
    \cup {<< "moved", a >> : a \in NewAddrs(h)}
    \cup {<< "fail", a >> : a \in NewAddrs(h)}

Bind ==
  \E args \in BindArgs, r \in ReallocOutcomes(heap, f.config) :
    allocate_affine_config(args[1], args[2], r[1], r[2])

(***************************************************************************)
(* exec_affine: reads *f->config as an affine_impl_t and runs one of the   *)
(* two strategies.  There is no check of the kernel's lifecycle.           *)
(***************************************************************************)
exec_affine ==
  /\ pc = "running"
  /\ LET blk == heap[f.config]
     IN IF ~blk.live \/ blk.size # "affine_impl_t"
        THEN \* a freed block, or fields past the end of an affine_config_t block
             Undefined("exec")
        ELSE LET p == blk.impl
                 r == RunStrategy(p, data)
             IN IF CallsUnresolved(p, r.acc)
                THEN \* a call through a null accessor
                     Undefined("exec")
                ELSE IF r.oob
                THEN \* an access outside a Variable's buffer
                     /\ pc' = "undefined"
                     /\ op' = "exec"
                     /\ data' \in Damage(r.mem)
                     /\ ex' = [strategy |-> Strategy(p), acc |-> r.acc]
                     /\ UNCHANGED << f, heap, buf, phase, rebound >>
                ELSE /\ data' = r.mem
                     /\ ex' = [strategy |-> Strategy(p), acc |-> r.acc]
                     /\ op' = "exec"
                     /\ UNCHANGED << f, heap, pc, buf, phase, rebound >>

(***************************************************************************)
(* release: free_affine_config(f) shrinks the block with realloc and drops *)
(* the result; f->config is left as it was.                                *)
(***************************************************************************)
free_affine_config(how, a) ==
  /\ pc = "running"
  /\ IF ~heap[f.config].live
     THEN Undefined("release")
     ELSE /\ heap' = [x \in Addr |->
                       IF how = "fail" THEN heap[x]
                       ELSE IF how = "inplace" /\ x = f.config
                       THEN ConfigBlock(heap[f.config].base_axis)
                       ELSE IF how = "moved" /\ x = a THEN LeakedBlock
                       ELSE IF how = "moved" /\ x = f.config THEN FreeBlock
                       ELSE heap[x]]
          /\ phase' = "Released"
          /\ op' = "release"
          /\ ex' = [strategy |-> "none", acc |-> <<>>]
          /\ UNCHANGED << f, data, pc, buf, rebound >>

Release ==
  \E r \in ReallocOutcomes(heap, f.config) :
    /\ (r[1] = "fail" => r[2] = 0)
    /\ free_affine_config(r[1], r[2])

Next == Bind \/ exec_affine \/ Release

Spec == Init /\ [][Next]_vars


(***************************************************************************)
(* Vocabulary of the properties.                                           *)
(***************************************************************************)
\* the Resolved State the last bind stored (at its local buf)
Resolved == heap[buf].impl

\* the last bind returned and stored a Resolved State
BindReturned == phase = "Bound" /\ buf # 0 /\ heap[buf].live /\ heap[buf].size = "affine_impl_t"

\* the canonical value of element pos of Variable v
Logical(v, pos) == Rd(data[v], pos) * Variables[v].scale

\* sum over j in [0, n) of input[k*I + j] * weight[j*O + i]
RECURSIVE DotProduct(_, _, _, _)
DotProduct(p, k, i, n) ==
  IF n = 0 THEN 0
  ELSE DotProduct(p, k, i, n - 1)
         + Logical(p.input, k * p.input_loop_size + (n - 1))
           * Logical(p.weight, (n - 1) * p.output_loop_size + i)

\* 0 <= base_axis <= rank(input.shape)
AxisInRange == heap[buf].base_axis >= 0
                 /\ heap[buf].base_axis <= Len(Variables[Resolved.input].shape)

\* the operand sizes section 4.3 of the specification has bind validate
SizesConsistent ==
  /\ VarSize(Resolved.weight) = Resolved.input_loop_size * Resolved.output_loop_size
  /\ Resolved.bias # NULL => VarSize(Resolved.bias) = Resolved.output_loop_size
  /\ Resolved.base_loop_size * Resolved.output_loop_size = VarSize(Resolved.output)

\* every bound Variable has a type the Typed Access Layer resolves
TypesSupported ==
  \A v \in {Resolved.input, Resolved.weight, Resolved.output} \cup ({Resolved.bias} \ {NULL}) :
    Variables[v].type \in {NN_DATA_TYPE_FLOAT, NN_DATA_TYPE_INT16}

\* a bind the specification calls successful
SpecValid == BindReturned /\ AxisInRange /\ SizesConsistent /\ TypesSupported

(***************************************************************************)
(* C1.  After a successful bind and one exec, every output element [k, i]  *)
(* equals the sum over j of input[k, j] * weight[j, i], plus bias[i] when  *)
(* a bias is bound.                                                        *)
(* Stated for the binds that pass every validation of the specification;   *)
(* violated all the same: when realloc moves the block, f->config is left  *)
(* pointing at the freed block and exec reads that one.                    *)
(***************************************************************************)
C1_AffineResult ==
  (SpecValid /\ op = "exec") =>
    \A k \in 0..(Resolved.base_loop_size - 1), i \in 0..(Resolved.output_loop_size - 1) :
      LET opos == k * Resolved.output_loop_size + i
      IN /\ InRange(data[Resolved.output], opos)
         /\ Logical(Resolved.output, opos)
              = DotProduct(Resolved, k, i, Resolved.input_loop_size)
                + (IF Resolved.bias # NULL THEN Logical(Resolved.bias, i) ELSE 0)

(***************************************************************************)
(* C2.  For every shape and base_axis bind accepts, the stored geometry    *)
(* has base_loop_size * input_loop_size = product(input.shape) and         *)
(* base_loop_size * output_loop_size = product(output.shape) = output_size.*)
(* Stated for a base_axis within [0, rank]; violated because bind accepts  *)
(* an output whose leading dimensions differ from the input's.             *)
(***************************************************************************)
C2_GeometryProducts ==
  (BindReturned /\ AxisInRange /\ op = "bind" /\ pc = "running") =>
    /\ Resolved.base_loop_size * Resolved.input_loop_size
         = calc_shape_size(Variables[Resolved.input].shape)
    /\ Resolved.base_loop_size * Resolved.output_loop_size
         = calc_shape_size(Variables[Resolved.output].shape)
    /\ Resolved.output_size = calc_shape_size(Variables[Resolved.output].shape)

(***************************************************************************)
(* C3.  A bind with a number of inputs other than 2 or 3, or a number of   *)
(* outputs other than 1, always fails (the assertion aborts the process)   *)
(* and constructs no Resolved State: heap, lifecycle and buffers stay as   *)
(* they were.                                                              *)
(***************************************************************************)
C3_ArityRejected ==
  [][ (\E args \in {a \in BindArgs : Len(a[1]) \notin {2, 3} \/ Len(a[2]) # 1},
          r \in ReallocOutcomes(heap, f.config) :
         allocate_affine_config(args[1], args[2], r[1], r[2]))
      => (pc' = "aborted" /\ UNCHANGED << heap, buf, phase, data >>) ]_vars

C3_Witness ==
  /\ pc = "aborted" /\ op = "bind" /\ phase = "Unbound"
  /\ f.num_of_inputs = 1 /\ f.num_of_outputs = 1
  /\ heap[f.config].size = "affine_config_t"


(***************************************************************************)
(* C4.  bind with base_axis < 0 or base_axis > rank(input.shape) fails and *)
(* constructs no Resolved State; bind succeeds only when                   *)
(* 0 <= base_axis <= rank(input.shape).                                    *)
(* Violated: allocate_affine_config never compares base_axis with the rank *)
(* and stores a Resolved State for any value.                              *)
(***************************************************************************)
C4_BaseAxisChecked ==
  (BindReturned /\ op = "bind" /\ pc = "running") => AxisInRange

(***************************************************************************)
(* C5.  bind succeeds only if the weight has input_loop_size *             *)
(* output_loop_size elements and, when a bias is bound, the bias has       *)
(* output_loop_size elements.                                              *)
(* Stated for a base_axis within [0, rank]; violated: the element counts   *)
(* of weight and bias are never read by allocate_affine_config.            *)
(***************************************************************************)
C5_OperandSizesChecked ==
  (BindReturned /\ AxisInRange /\ op = "bind" /\ pc = "running") =>
    /\ VarSize(Resolved.weight) = Resolved.input_loop_size * Resolved.output_loop_size
    /\ Resolved.bias # NULL => VarSize(Resolved.bias) = Resolved.output_loop_size

(***************************************************************************)
(* C6.  During an exec that follows a successful bind, every index used to *)
(* read input, weight or bias or to read or write output lies in           *)
(* [0, product(shape)) of the accessed Variable.                           *)
(* Stated for a base_axis within [0, rank]; violated: with the operand     *)
(* sizes unchecked at bind, the loops of exec index past a buffer's end.   *)
(***************************************************************************)
C6_AccessesInRange ==
  (BindReturned /\ AxisInRange /\ op = "exec") =>
    \A n \in 1..Len(ex.acc) :
      ex.acc[n].pos >= 0 /\ ex.acc[n].pos < VarSize(BufferOf(Resolved, ex.acc[n].var))

(***************************************************************************)
(* C7.  When input, weight, output and (if present) bias are all Float32,  *)
(* exec_affine_float and exec_affine_generic, run from the same bound      *)
(* state and the same buffers, leave identical output buffers (and leave   *)
(* every other buffer alike).                                              *)
(***************************************************************************)
\* f->config refers to a block that holds a Resolved State
Readable == pc = "running" /\ heap[f.config].live /\ heap[f.config].size = "affine_impl_t"

C7_StrategiesAgree ==
  (Readable /\ AllFloat(heap[f.config].impl)) =>
    exec_affine_float(heap[f.config].impl, data).mem
      = exec_affine_generic(heap[f.config].impl, data).mem

\* the Direct strategy has run on an all-Float32 binding with a bias, and the
\* Generic strategy computes the buffer it left
C7_Witness ==
  /\ Readable /\ op = "exec" /\ ex.strategy = "float"
  /\ heap[f.config].impl.bias # NULL
  /\ heap[f.config].impl.base_loop_size > 1
  /\ ~HasOutOfRange(heap[f.config].impl, ex.acc)
  /\ data[heap[f.config].impl.output]
       = exec_affine_generic(heap[f.config].impl, InitData).mem[heap[f.config].impl.output]
  /\ data[heap[f.config].impl.output] # InitData[heap[f.config].impl.output]

(***************************************************************************)
(* C8.  Binding with 2 inputs (no bias) and executing yields the output    *)
(* that binding the same input and weight with an all-zero bias (3 inputs) *)
(* and executing yields; with 2 inputs the bias stage is skipped and the   *)
(* bias reader is never invoked.                                           *)
(* Stated for the binds that pass every validation of the specification;   *)
(* violated when realloc moves the block: exec then reads the freed block, *)
(* where bias and get_bias are whatever the allocator left.                *)
(***************************************************************************)
C8_BiasOmission ==
  (SpecValid /\ op = "exec" /\ f.num_of_inputs = 2) =>
    LET zeroBias == Populate(Uninit, << f.inputs[1], f.inputs[2], "Bz" >>, f.outputs, 3,
                             heap[buf].base_axis, 0, 0)
    IN /\ ex.strategy \in {"float", "generic"}
       /\ \A n \in 1..Len(ex.acc) : ex.acc[n].var # "bias"
       /\ data[Resolved.output] = RunStrategy(zeroBias, data).mem[Resolved.output]

(***************************************************************************)
(* C9.  After bind(A); exec; bind(B); exec the bound variables, accessors, *)
(* presence of bias, geometry and output are exactly those of a fresh      *)
(* kernel on which only bind(B); exec was run.                             *)
(* Stated for the binds that pass every validation of the specification;   *)
(* violated: a rebind without bias keeps the get_bias of binding A, and a  *)
(* rebind that moves the block leaves f->config at the freed block.        *)
(***************************************************************************)
C9_RebindSupersedes ==
  (rebound /\ SpecValid /\ op = "exec") =>
    LET fresh == Populate(Uninit, f.inputs, f.outputs, f.num_of_inputs,
                          heap[buf].base_axis, 0, 0)
    IN /\ heap[f.config].live
       /\ heap[f.config].impl = fresh
       /\ data[fresh.output] = RunStrategy(fresh, data).mem[fresh.output]

(***************************************************************************)
(* C10.  exec computes only in Bound: an exec issued while the kernel is   *)
(* Unbound or Released is rejected as a fatal precondition violation and   *)
(* leaves every Variable buffer untouched.                                 *)
(* Violated: exec_affine has no lifecycle check; it dereferences f->config *)
(* as an affine_impl_t in every state.                                     *)
(***************************************************************************)
C10_ExecOnlyWhenBound ==
  [][ (pc = "running" /\ phase \in {"Unbound", "Released"} /\ exec_affine)
      => (pc' = "aborted" /\ data' = data) ]_vars


(***************************************************************************)
(* C11.  An exec after a successful bind runs exactly one strategy for the *)
(* whole call: exec_affine_float if and only if the bound input, weight    *)
(* and output are Float32 and the bias is absent or Float32, and           *)
(* exec_affine_generic otherwise.                                          *)
(* Violated: when realloc moved the block (C18) exec reads the freed block *)
(* f->config still points at, and what it dispatches on is not the bound   *)
(* Variables.                                                              *)
(***************************************************************************)
C11_OneStrategyPerExec ==
  (SpecValid /\ op = "exec") =>
    LET direct == /\ Variables[Resolved.input].type = NN_DATA_TYPE_FLOAT
                  /\ Variables[Resolved.weight].type = NN_DATA_TYPE_FLOAT
                  /\ Variables[Resolved.output].type = NN_DATA_TYPE_FLOAT
                  /\ (Resolved.bias = NULL
                        \/ Variables[Resolved.bias].type = NN_DATA_TYPE_FLOAT)
    IN ex.strategy = IF direct THEN "float" ELSE "generic"

(***************************************************************************)
(* C12.  In the accesses one exec makes, for every output element e: a     *)
(* zero-initialising write to e precedes every accumulation write to e; a  *)
(* bias-addition write to e comes after all input_loop_size                *)
(* weight-accumulation writes to e; and the weight-accumulation writes are *)
(* made in the order row, then input feature, then output feature.         *)
(***************************************************************************)
\* the positions in the trace of the last exec of the writes a stage made to the output
OutputWrites(stage) ==
  {n \in 1..Len(ex.acc) :
     ex.acc[n].var = "output" /\ ex.acc[n].kind = "w" /\ ex.acc[n].stage = stage}

\* << row, input feature, output feature >> of the weight-accumulation write at n,
\* from its output position and the position of the weight element it read
LoopIndex(n) ==
  LET O == heap[f.config].impl.output_loop_size
  IN << ex.acc[n].pos \div O, ex.acc[n - 2].pos \div O, ex.acc[n].pos % O >>

LexLess(a, b) ==
  \/ a[1] < b[1]
  \/ a[1] = b[1] /\ a[2] < b[2]
  \/ a[1] = b[1] /\ a[2] = b[2] /\ a[3] < b[3]

C12_StageOrder ==
  /\ \A n \in OutputWrites("weight") \cup OutputWrites("bias") :
       \E m \in OutputWrites("clear") : m < n /\ ex.acc[m].pos = ex.acc[n].pos
  /\ \A n \in OutputWrites("bias") :
       LET before == {m \in OutputWrites("weight") : ex.acc[m].pos = ex.acc[n].pos}
       IN /\ Cardinality(before) = heap[f.config].impl.input_loop_size
          /\ \A m \in before : m < n
  /\ \A n, m \in OutputWrites("weight") :
       n < m => LexLess(LoopIndex(n), LoopIndex(m))

\* an exec with two rows, three input features and a bias has completed
C12_Witness ==
  /\ op = "exec" /\ pc = "running"
  /\ Cardinality(OutputWrites("clear")) = 8
  /\ Cardinality(OutputWrites("weight")) = 24
  /\ Cardinality(OutputWrites("bias")) = 8


(***************************************************************************)
(* C13.  When base_loop_size = 0 after a successful bind (an empty leading *)
(* input dimension), exec writes no element: it leaves every buffer as it  *)
(* was, under either strategy.                                             *)
(* Violated: when realloc moved the block (C18) exec runs on the freed     *)
(* block and not on the geometry bind stored.                              *)
(***************************************************************************)
C13_NoRowsNoWrites ==
  [][ (SpecValid /\ Resolved.base_loop_size = 0 /\ pc = "running" /\ op' = "exec")
      => (data' = data /\ pc' = "running"
          /\ \A n \in 1..Len(ex'.acc) : ex'.acc[n].kind # "w") ]_vars

(***************************************************************************)
(* C14.  The Configuration is never mutated and outlives the Resolved      *)
(* State: whatever bind, exec or release does, base_axis stays readable    *)
(* through f->config with the value it had.                                *)
(* Violated: a realloc that moves the block frees the one f->config refers *)
(* to, in allocate_affine_config and in free_affine_config alike.          *)
(***************************************************************************)
C14_ConfigurationOutlives ==
  [][ (pc = "running" /\ heap[f.config].live)
      => (heap'[f'.config].live
          /\ heap'[f'.config].base_axis = heap[f.config].base_axis) ]_vars

C16_ExecFrame ==
  [][ (SpecValid /\ pc = "running" /\ op' = "exec")
      => (/\ f' = f
          /\ heap' = heap
          /\ \A v \in VarIds \ {Resolved.output} : data'[v] = data[v]) ]_vars

(***************************************************************************)
(* C17.  After an exec that follows a successful bind, the output buffer   *)
(* is what the bound strategy computes from the input, weight and bias     *)
(* whatever the output buffer held before: all zeros, the caller's initial *)
(* contents, or the result of a previous exec (executing twice gives what  *)
(* executing once gives).                                                  *)
(* Violated: when realloc moved the block (C18) exec does not run on the   *)
(* Resolved State, and the output can keep what it held.                   *)
(***************************************************************************)
C17_OutputOverwritten ==
  (SpecValid /\ op = "exec") =>
    LET out == Resolved.output
    IN \A before \in {[n \in 1..Len(data[out]) |-> 0], InitData[out], data[out]} :
         data[out] = RunStrategy(Resolved, [data EXCEPT ![out] = before]).mem[out]

(***************************************************************************)
(* C18.  After allocate_affine_config returns, f->config refers to the     *)
(* block bind populated: a live affine_impl_t block holding the Variables  *)
(* passed to this bind, whether realloc grew the block in place, moved it, *)
(* or failed and malloc supplied a fresh one.                              *)
(* Violated: f->config is assigned only on the malloc path (line 57).      *)
(***************************************************************************)
C18_ConfigIsPopulatedBlock ==
  (op = "bind" /\ pc = "running" /\ phase = "Bound") =>
    /\ f.config = buf
    /\ heap[f.config].live
    /\ heap[f.config].size = "affine_impl_t"
    /\ heap[f.config].impl.input = f.inputs[1]
    /\ heap[f.config].impl.weight = f.inputs[2]
    /\ heap[f.config].impl.output = f.outputs[1]

====
